---- MODULE Spec2Model ----
(***************************************************************************)
(* The upload form and result renderer of frontend/src/App.js, as a state  *)
(* machine.  The state is the four useState hooks of App, the committed    *)
(* render output (the DOM the user acts on, with the handler closure bound *)
(* to the button), and the POST requests in flight.  Every handler runs to *)
(* its next await as one step and ends with the re-render React performs   *)
(* for the batch of state updates it made.                                 *)
(***************************************************************************)
EXTENDS Naturals, Sequences, FiniteSets, TLC

\* Number of POST requests a behaviour may issue.
MaxPosts == 3

\* Longest improvement_suggestions array a response carries.
MaxSuggestions == 1

----------------------------------------------------------------------------
(* JavaScript values, tagged by type.                                      *)

Undefined == [t |-> "undefined"]

Null == [t |-> "null"]

Str(s) == [t |-> "string", v |-> s]

Bool(b) == [t |-> "boolean", v |-> b]

Arr(s) == [t |-> "array", v |-> s]

Obj(r) == [t |-> "object", v |-> r]

File(n) == [t |-> "file", v |-> n]

\* ToBoolean, as used by `!x`, `x && y` and `x ? a : b`.
Truthy(x) ==
  CASE x.t = "undefined" -> FALSE
    [] x.t = "null" -> FALSE
    [] x.t = "string" -> x.v # ""
    [] x.t = "boolean" -> x.v
    [] OTHER -> TRUE

\* Reading a property of undefined or null throws a TypeError.
Nullish(x) == x.t \in {"undefined", "null"}

\* o.k for a value o that is not nullish; a missing property is undefined.
Get(o, k) == IF o.t = "object" /\ k \in DOMAIN o.v THEN o.v[k] ELSE Undefined

----------------------------------------------------------------------------
(* Inputs: the files the user can pick and the bodies the endpoint can     *)
(* answer with.  A field that is absent from a body reads as undefined.    *)

Files == {File("a.pdf"), File("b.pdf")}

\* event.target.files[0]; undefined when the chooser is left with no file.
FileChoices == Files \cup {Undefined}

TextValues == {Undefined, Str(""), Str("Hello")}

FlagValues == {Undefined, Bool(FALSE), Bool(TRUE)}

KeySections ==
  {Obj([education_present |-> e, experience_present |-> x, skills_present |-> s]) :
     e \in FlagValues, x \in FlagValues, s \in FlagValues}

AnalysisValues ==
  {Undefined} \cup {Obj([key_sections |-> ks]) : ks \in {Undefined} \cup KeySections}

SuggestionItems ==
  {Null, Obj([suggestion |-> Str("Add metrics")]), Obj([suggestion |-> Str("Fix typos")])}

SuggestionValues ==
  {Undefined} \cup
  {Arr(s) : s \in UNION {[1..n -> SuggestionItems] : n \in 0..MaxSuggestions}}

ResponseBodies ==
  {Null} \cup
  {Obj([extracted_text |-> t, analysis |-> a, improvement_suggestions |-> s]) :
     t \in TextValues, a \in AnalysisValues, s \in SuggestionValues}

NoFileMessage == "Please select a resume file."

FailureMessage == "Failed to upload and analyze the resume. Please try again."

----------------------------------------------------------------------------
VARIABLES
  selectedFile,    \* useState(null): the chosen file
  analysisResult,  \* useState(null): the stored response body
  loading,         \* useState(false)
  error,           \* useState(null): the message shown, or null
  view,            \* the committed render output
  inflight,        \* the POST requests awaiting completion
  nPosts,          \* how many POST requests have been issued
  lastEvent        \* the handler step taken last, with its input

vars == <<selectedFile, analysisResult, loading, error, view, inflight, nPosts, lastEvent>>

----------------------------------------------------------------------------
(* The render function of App: state to output.                            *)

\* What React puts in the DOM for {x}: a string as its text, nothing for
\* undefined, null and booleans.
Text(x) == IF x.t = "string" THEN x.v ELSE ""

YesNo(x) == IF Truthy(x) THEN "Yes" ELSE "No"

\* As ButtonDisabled, without the disabled attribute.
ButtonNeverDisabled(ld) == FALSE

\* disabled={loading}
ButtonDisabled(ld) == ld

ButtonLabel(ld) == IF ld THEN "Analyzing..." ELSE "Analyze Resume"

\* {error && <p className="error-message">{error}</p>}
ErrorMessage(er) == IF Truthy(er) THEN <<Text(er)>> ELSE <<>>

ExtractedTextBlock(ar) ==
  IF Truthy(Get(ar, "extracted_text"))
  THEN <<[block |-> "extracted-text", heading |-> "Extracted Text",
          lines |-> <<[label |-> "", value |-> Text(Get(ar, "extracted_text"))]>>]>>
  ELSE <<>>

\* The block is guarded by `analysis` alone; each line then reads
\* analysis.key_sections.<flag>.
KeySectionsBlock(ar) ==
  LET ks == Get(Get(ar, "analysis"), "key_sections") IN
  IF Truthy(Get(ar, "analysis"))
  THEN <<[block |-> "key-sections-analysis", heading |-> "Key Sections Analysis",
          lines |-> <<[label |-> "Education Present",
                       value |-> YesNo(Get(ks, "education_present"))],
                      [label |-> "Experience Present",
                       value |-> YesNo(Get(ks, "experience_present"))],
                      [label |-> "Skills Present",
                       value |-> YesNo(Get(ks, "skills_present"))]>>]>>
  ELSE <<>>

\* improvement_suggestions && improvement_suggestions.length > 0
HasSuggestions(ar) ==
  LET sg == Get(ar, "improvement_suggestions") IN
  Truthy(sg) /\ sg.t = "array" /\ Len(sg.v) > 0

SuggestionsBlock(ar) ==
  LET sg == Get(ar, "improvement_suggestions") IN
  IF HasSuggestions(ar)
  THEN <<[block |-> "improvement-suggestions", heading |-> "Improvement Suggestions",
          lines |-> [i \in 1..Len(sg.v) |->
                       [label |-> "", value |-> Text(Get(sg.v[i], "suggestion"))]]]>>
  ELSE <<>>

\* {analysisResult && (<div className="results-section"> ... </div>)}
ResultsSection(ar) ==
  IF Truthy(ar)
  THEN <<[heading |-> "Analysis Results",
          blocks |-> ExtractedTextBlock(ar) \o KeySectionsBlock(ar) \o SuggestionsBlock(ar)]>>
  ELSE <<>>

\* The property reads of the render that throw a TypeError: key_sections.<flag>
\* when analysis is truthy and has no key_sections, and suggestion.suggestion
\* for a suggestion that is null.
RenderThrows(ar) ==
  /\ Truthy(ar)
  /\ \/ /\ Truthy(Get(ar, "analysis"))
        /\ Nullish(Get(Get(ar, "analysis"), "key_sections"))
     \/ /\ HasSuggestions(ar)
        /\ \E i \in 1..Len(Get(ar, "improvement_suggestions").v) :
              Nullish(Get(ar, "improvement_suggestions").v[i])

\* handleUpload is created by each render and reads that render's selectedFile.
UploadClosure(sf) == [selectedFile |-> sf]

Render(sf, ar, ld, er) ==
  [button |-> <<[disabled |-> ButtonDisabled(ld), label |-> ButtonLabel(ld),
                 onClick |-> UploadClosure(sf)]>>,
   error |-> ErrorMessage(er),
   results |-> ResultsSection(ar)]

\* An error thrown while rendering, with no error boundary above App, makes
\* React remove the whole tree.
Unmounted == [button |-> <<>>, error |-> <<>>, results |-> <<>>]

Mounted == view.button # <<>>

\* The re-render that ends every handler step.
Commit(sf, ar, ld, er) ==
  view' = IF ~Mounted THEN view
          ELSE IF RenderThrows(ar) THEN Unmounted
          ELSE Render(sf, ar, ld, er)

Event(type, data) == [type |-> type, data |-> data]

----------------------------------------------------------------------------
Init ==
  /\ selectedFile = Null
  /\ analysisResult = Null
  /\ loading = FALSE
  /\ error = Null
  /\ view = Render(Null, Null, FALSE, Null)
  /\ inflight = {}
  /\ nPosts = 0
  /\ lastEvent = Event("mount", Undefined)

----------------------------------------------------------------------------
(* The handlers.                                                           *)

\* As PostRequest, with the file never appended to the form.
PostRequestWithoutFile(id, sf) == [id |-> id, file |-> Undefined]

\* const formData = new FormData(); formData.append('file', selectedFile);
\* axios.post(url, formData, ...): the request carries the file it was built with.
PostRequest(id, sf) == [id |-> id, file |-> sf]

\* As NoFile, testing for null alone.
NoFileNullOnly(sf) == sf = Null

\* if (!selectedFile)
NoFile(sf) == ~Truthy(sf)

\* setError('Please select a resume file.'); return;
RejectNoFile ==
  /\ error' = Str(NoFileMessage)
  /\ UNCHANGED <<analysisResult, loading, inflight, nPosts>>

\* As StartUpload, without setAnalysisResult(null).
StartUploadKeepsResult(sf) ==
  /\ nPosts < MaxPosts
  /\ loading' = TRUE
  /\ error' = Null
  /\ UNCHANGED analysisResult
  /\ inflight' = inflight \cup {PostRequest(nPosts + 1, sf)}
  /\ nPosts' = nPosts + 1

\* setLoading(true); setError(null); setAnalysisResult(null); then the POST.
StartUpload(sf) ==
  /\ nPosts < MaxPosts
  /\ loading' = TRUE
  /\ error' = Null
  /\ analysisResult' = Null
  /\ inflight' = inflight \cup {PostRequest(nPosts + 1, sf)}
  /\ nPosts' = nPosts + 1

\* As StoredResult, storing the response instead of its data.
StoredWholeResponse(response) == Obj(response)

\* setAnalysisResult(response.data)
StoredResult(response) == response.data

\* As CatchError, with a catch block that only logs.
CatchOnlyLogs == UNCHANGED error

\* catch (err): setError('Failed to upload and analyze the resume. ...')
CatchError == error' = Str(FailureMessage)

\* As Finally, without the finally block.
FinallyMissing == UNCHANGED loading

\* finally: setLoading(false)
Finally == loading' = FALSE

\* onChange of the file input.
HandleFileChange(f) ==
  /\ Mounted
  /\ selectedFile' = f
  /\ lastEvent' = Event("selectFile", f)
  /\ UNCHANGED <<analysisResult, loading, error, inflight, nPosts>>
  /\ Commit(selectedFile', analysisResult', loading', error')

\* onClick of the button, up to the await: a disabled button delivers no click.
HandleUpload ==
  /\ Mounted
  /\ ~view.button[1].disabled
  /\ LET sf == view.button[1].onClick.selectedFile IN
     IF NoFile(sf) THEN RejectNoFile ELSE StartUpload(sf)
  /\ lastEvent' = Event("submit", Undefined)
  /\ UNCHANGED selectedFile
  /\ Commit(selectedFile', analysisResult', loading', error')

\* The await returns a 2xx response; then the finally block.  State updates of
\* a component that is no longer mounted are dropped.
Resolve(r, body) ==
  /\ r \in inflight
  /\ inflight' = inflight \ {r}
  /\ IF Mounted
     THEN /\ analysisResult' = StoredResult([data |-> body])
          /\ Finally
          /\ UNCHANGED error
     ELSE UNCHANGED <<analysisResult, loading, error>>
  /\ lastEvent' = Event("success", body)
  /\ UNCHANGED <<selectedFile, nPosts>>
  /\ Commit(selectedFile', analysisResult', loading', error')

\* The await throws (network error or non-2xx): the catch block, then the
\* finally block.
Reject(r) ==
  /\ r \in inflight
  /\ inflight' = inflight \ {r}
  /\ IF Mounted
     THEN /\ CatchError
          /\ Finally
          /\ UNCHANGED analysisResult
     ELSE UNCHANGED <<analysisResult, loading, error>>
  /\ lastEvent' = Event("failure", Undefined)
  /\ UNCHANGED <<selectedFile, nPosts>>
  /\ Commit(selectedFile', analysisResult', loading', error')

\* A request in flight completes, one way or the other.
Settle ==
  \E r \in inflight : Reject(r) \/ \E body \in ResponseBodies : Resolve(r, body)

Next ==
  \/ \E f \in FileChoices : HandleFileChange(f)
  \/ HandleUpload
  \/ \E r \in inflight : \E body \in ResponseBodies : Resolve(r, body)
  \/ \E r \in inflight : Reject(r)

Spec == Init /\ [][Next]_vars

\* Every request that was issued completes.
FairSpec == Spec /\ WF_vars(Settle)

----------------------------------------------------------------------------
(* Properties.                                                             *)

\* The blocks of the results section on screen.
ShownBlocks == IF view.results = <<>> THEN <<>> ELSE view.results[1].blocks

Shown(b) == \E i \in 1..Len(ShownBlocks) : ShownBlocks[i].block = b

\* C1: a click on the button while no file is selected issues no request,
\* sets error to "Please select a resume file." and leaves loading false.
C1_NoFileSubmit ==
  [][(lastEvent'.type = "submit" /\ ~Truthy(selectedFile)) =>
       /\ error' = Str(NoFileMessage)
       /\ inflight' = inflight
       /\ nPosts' = nPosts
       /\ ~loading /\ ~loading']_vars

C1_Witness ==
  /\ lastEvent.type = "submit"
  /\ selectedFile = Undefined
  /\ error = Str(NoFileMessage)
  /\ inflight = {}

\* C2: a click on the button while a file is selected issues exactly one POST,
\* whose file part is the file selected at that moment; the file of a request
\* in flight is never changed afterwards, and nothing but a click issues a POST.
C2_OnePostWithSelectedFile ==
  [][/\ (lastEvent'.type = "submit" /\ Truthy(selectedFile)) =>
          /\ nPosts' = nPosts + 1
          /\ \E r \in inflight' \ inflight :
                inflight' = inflight \cup {r} /\ r.file = selectedFile
     /\ \A r \in inflight' : \A q \in inflight : q.id = r.id => q.file = r.file
     /\ nPosts' # nPosts => lastEvent'.type = "submit"]_vars

C2_Witness ==
  \E r \in inflight :
     Truthy(selectedFile) /\ r.file # selectedFile /\ lastEvent.type = "selectFile"

\* C3: at most one request is in flight; while one is, loading is true and the
\* button is disabled.
C3_AtMostOneInFlight ==
  /\ Cardinality(inflight) <= 1
  /\ inflight # {} => loading
  /\ loading => Mounted /\ view.button[1].disabled

C3_Witness ==
  /\ Cardinality(inflight) = 1
  /\ nPosts >= 2
  /\ lastEvent.type = "selectFile"

\* C4: a failed request leaves loading=false, error equal to the fixed failure
\* message and result=null, and issues no further request.
C4_FailureOutcome ==
  [][lastEvent'.type = "failure" =>
       /\ ~loading'
       /\ error' = Str(FailureMessage)
       /\ analysisResult' = Null
       /\ nPosts' = nPosts
       /\ inflight' = {}]_vars

C4_Witness ==
  /\ lastEvent.type = "failure"
  /\ error = Str(FailureMessage)
  /\ view.error = <<FailureMessage>>
  /\ ~loading

\* C5: a successful request leaves result equal to the body of its response,
\* loading=false and error=null.
C5_SuccessOutcome ==
  lastEvent.type = "success" =>
    /\ analysisResult = lastEvent.data
    /\ ~loading
    /\ error = Null

C5_Witness ==
  /\ lastEvent.type = "success"
  /\ Truthy(analysisResult)
  /\ nPosts >= 2
  /\ Mounted

C7_SubmitResetsUIState ==
  lastEvent.type = "submit" =>
    /\ analysisResult = Null
    /\ error \in {Null, Str(NoFileMessage)}

\* C8: each of the three blocks is on screen iff its own field of the stored
\* result asks for it; a null result shows none.
C8_BlocksFollowOwnField ==
  LET ar == analysisResult IN
  /\ Shown("extracted-text") <=> (Truthy(ar) /\ Truthy(Get(ar, "extracted_text")))
  /\ Shown("key-sections-analysis") <=> (Truthy(ar) /\ Truthy(Get(ar, "analysis")))
  /\ Shown("improvement-suggestions") <=> (Truthy(ar) /\ HasSuggestions(ar))

\* C9: whenever the stored result has `analysis`, rendering completes and the
\* key-sections block shows the three lines, "Yes" for a truthy flag of
\* analysis.key_sections and "No" otherwise.
C9_KeySectionsLines ==
  LET ar == analysisResult
      ks == Get(Get(ar, "analysis"), "key_sections")
  IN  (Truthy(ar) /\ Truthy(Get(ar, "analysis"))) =>
        /\ Mounted
        /\ \E i \in 1..Len(ShownBlocks) :
              /\ ShownBlocks[i].block = "key-sections-analysis"
              /\ ShownBlocks[i].lines =
                   <<[label |-> "Education Present",
                      value |-> YesNo(Get(ks, "education_present"))],
                     [label |-> "Experience Present",
                      value |-> YesNo(Get(ks, "experience_present"))],
                     [label |-> "Skills Present",
                      value |-> YesNo(Get(ks, "skills_present"))]>>

\* C10: while loading=true, error and result are null.
C10_LoadingMeansClean ==
  loading => (error = Null /\ analysisResult = Null)

C10_Witness ==
  /\ loading
  /\ nPosts >= 2
  /\ lastEvent.type = "selectFile"
  /\ selectedFile = Undefined

====
